---- MODULE Spec2Model ----
(***************************************************************************)
(* A model of src/app.py, the command-line nutrition lookup tool.          *)
(*                                                                         *)
(* Numbers.  Python floats are modelled as exact rationals <<n, d>> in     *)
(* lowest terms with d > 0, so that equal numbers are equal values; the    *)
(* float NaN is the pair <<0, 0>>.  Decimal literals of the source are     *)
(* the rationals they denote (6.25 = 25/4, 1.375 = 11/8, ...).  Rounding   *)
(* of binary floating point is not modelled.                               *)
(*                                                                         *)
(* Two specifications:                                                     *)
(*   Spec      the interactive session main() runs (lines 134-204), one    *)
(*             action per menu handler; the multi-item handler blocks on   *)
(*             input once per item and is modelled one item per step;      *)
(*   CalcSpec  the module's functions called directly, the arguments       *)
(*             drawn by the initial state.                                 *)
(***************************************************************************)
EXTENDS Integers, Sequences, FiniteSets, TLC

VARIABLES
    pc,               \* where the process is: "start", "menu" (blocked on the choice),
                      \* "multi" (blocked on an item of option 2), "exited", "crashed",
                      \* "import" (CalcSpec: the module imported, main not run)
    API_KEY,          \* the module global API_KEY (line 9)
    results,          \* main's list `results` (line 135)
    combined_macros,  \* option 2's accumulator (line 167)
    num_items,        \* option 2's item count (line 168)
    batch,            \* history: what fetch_from_usda returned for each item of the
                      \* batch so far, "rejected" for an item refused before the lookup;
                      \* its length is the loop index of line 169
    request,          \* the search request the last step sent to the food database,
                      \* None when it sent none
    out,              \* what the last step printed or wrote
    call,             \* CalcSpec: the function called and its arguments
    ret               \* CalcSpec: Pending, then the value the call returned

vars == <<pc, API_KEY, results, combined_macros, num_items, batch, request, out, call, ret>>

\* ------------------------------------------------------------------ bounds

MaxResults == 2
MaxItems == 2

\* ----------------------------------------------------------------- numbers

NaN == <<0, 0>>

Abs(x) == IF x < 0 THEN -x ELSE x

RECURSIVE GCD(_, _)
GCD(a, b) == IF b = 0 THEN a ELSE GCD(b, a % b)

\* The rational n/d (d # 0) in lowest terms with a positive denominator.
Norm(n, d) ==
    LET g == GCD(Abs(n), Abs(d))
        s == IF d < 0 THEN -1 ELSE 1
    IN  <<s * (n \div g), s * (d \div g)>>

R(i) == <<i, 1>>

IsNaN(x) == x[2] = 0

RAdd(x, y) ==
    IF IsNaN(x) \/ IsNaN(y) THEN NaN
    ELSE Norm(x[1] * y[2] + y[1] * x[2], x[2] * y[2])

RSub(x, y) ==
    IF IsNaN(x) \/ IsNaN(y) THEN NaN
    ELSE Norm(x[1] * y[2] - y[1] * x[2], x[2] * y[2])

RMul(x, y) ==
    IF IsNaN(x) \/ IsNaN(y) THEN NaN
    ELSE Norm(x[1] * y[1], x[2] * y[2])

\* x / y for a nonzero y (the source divides by the literals 100, 4 and 9 only).
RDiv(x, y) ==
    IF IsNaN(x) \/ IsNaN(y) THEN NaN
    ELSE Norm(x[1] * y[2], x[2] * y[1])

\* x <= y as Python compares floats: every comparison with NaN is False.
RLeq(x, y) ==
    /\ ~IsNaN(x)
    /\ ~IsNaN(y)
    /\ x[1] * y[2] <= y[1] * x[2]

\* ----------------------------------------------------------------- parsing

\* float(s) on the strings the model types in: the number, or ValueError.
\* float accepts "nan" and returns NaN.
FloatTable ==
    ("0" :> R(0)) @@ ("-5" :> R(-5)) @@ ("50" :> R(50)) @@ ("200" :> R(200))
    @@ ("nan" :> NaN) @@ ("70" :> R(70)) @@ ("175" :> R(175)) @@ ("10" :> R(10))
    @@ ("25" :> R(25)) @@ ("62.5" :> <<125, 2>>)

float(s) ==
    IF s \in DOMAIN FloatTable
    THEN [ok |-> TRUE, val |-> FloatTable[s]]
    ELSE [ok |-> FALSE]

\* int(s): an integer literal, or ValueError ("2.5" and "abc" are refused).
IntTable ==
    ("0" :> 0) @@ ("1" :> 1) @@ ("2" :> 2) @@ ("3" :> 3) @@ ("-1" :> -1)
    @@ ("25" :> 25) @@ ("70" :> 70)

int(s) ==
    IF s \in DOMAIN IntTable
    THEN [ok |-> TRUE, val |-> IntTable[s]]
    ELSE [ok |-> FALSE]

\* str.lower() on the strings the model types in.
lower(s) ==
    CASE s = "CSV" -> "csv"
      [] s = "Male" -> "male"
      [] s = "Very Active" -> "very active"
      [] OTHER -> s

\* --------------------------------------------------------- fetch_from_usda

\* dict.get(key, default)
Get(d, k, default) == IF k \in DOMAIN d THEN d[k] ELSE default

\* {nutrient['nutrientId']: nutrient['value'] for nutrient in foodNutrients}:
\* a later entry of the list overwrites an earlier one with the same id.
NutrientDict(foodNutrients) ==
    [id \in {foodNutrients[i].nutrientId : i \in DOMAIN foodNutrients} |->
        LET last == CHOOSE i \in DOMAIN foodNutrients :
                        /\ foodNutrients[i].nutrientId = id
                        /\ \A j \in DOMAIN foodNutrients :
                               foodNutrients[j].nutrientId = id => j <= i
        IN  foodNutrients[last].value]

None == [kind |-> "None"]

\* The value taken as per gram: the division by 100 left out.
ScaledPerGram(nutrients, id, quantity) ==
    RMul(Get(nutrients, id, R(0)), quantity)

\* nutrients.get(id, 0) / 100 * quantity
Scaled(nutrients, id, quantity) ==
    RMul(RDiv(Get(nutrients, id, R(0)), R(100)), quantity)

\* The body of fetch_from_usda after requests.get: `response` is what the food
\* database answered to the search for `food`.
fetch_from_usda(response, quantity) ==
    IF response.kind = "RequestException" THEN None
    ELSE IF Get(response.data, "foods", <<>>) = <<>> THEN None
    ELSE LET food_data == response.data.foods[1]
             nutrients == NutrientDict(Get(food_data, "foodNutrients", <<>>))
         IN  [kind |-> "profile",
              carbs |-> Scaled(nutrients, 1005, quantity),
              protein |-> Scaled(nutrients, 1003, quantity),
              fat |-> Scaled(nutrients, 1004, quantity),
              calories |-> Scaled(nutrients, 1008, quantity),
              fiber |-> Scaled(nutrients, 1079, quantity),
              quantity |-> quantity,
              food_description |-> Get(food_data, "description", "N/A")]

\* ------------------------------------------------------- intake estimator

\* The offsets taken the other way round: -161 unless gender == 'female'.
calculate_bmr_unless_female(weight, height, age, gender) ==
    RAdd(RSub(RAdd(RMul(R(10), weight), RMul(<<25, 4>>, height)),
              RMul(R(5), R(age))),
         IF gender = "female" THEN R(-161) ELSE R(5))

\* 10 * weight + 6.25 * height - 5 * age + (5 if gender == 'male' else -161)
calculate_bmr(weight, height, age, gender) ==
    RAdd(RSub(RAdd(RMul(R(10), weight), RMul(<<25, 4>>, height)),
              RMul(R(5), R(age))),
         IF gender = "male" THEN R(5) ELSE R(-161))

activity_factors ==
    ("sedentary" :> <<6, 5>>) @@ ("light" :> <<11, 8>>) @@ ("moderate" :> <<31, 20>>)
    @@ ("active" :> <<69, 40>>) @@ ("very active" :> <<19, 10>>)

\* The lookup without its default: an unknown level leaves the BMR unscaled.
calculate_tdee_no_default(bmr, activity_level) ==
    RMul(bmr, Get(activity_factors, activity_level, R(1)))

\* bmr * activity_factors.get(activity_level, 1.2)
calculate_tdee(bmr, activity_level) ==
    RMul(bmr, Get(activity_factors, activity_level, <<6, 5>>))

ratios ==
    [carbs |-> <<45, 65>>, protein |-> <<10, 35>>, fat |-> <<20, 35>>]

\* tdee * percent / 4, or tdee * percent / 9 for fat
recommended_macros(tdee) ==
    [nutrient \in DOMAIN ratios |->
        [i \in 1..2 |->
            IF nutrient # "fat"
            THEN RDiv(RMul(tdee, R(ratios[nutrient][i])), R(4))
            ELSE RDiv(RMul(tdee, R(ratios[nutrient][i])), R(9))]]

\* calculate_recommended_intake with the five answers typed in.
calculate_recommended_intake(age_s, weight_s, height_s, gender_s, activity_s) ==
    IF ~int(age_s).ok \/ ~float(weight_s).ok \/ ~float(height_s).ok
    THEN [kind |-> "Invalid input"]
    ELSE LET age == int(age_s).val
             weight == float(weight_s).val
             height == float(height_s).val
             gender == lower(gender_s)
             activity_level == lower(activity_s)
             bmr == calculate_bmr(weight, height, age, gender)
             tdee == calculate_tdee(bmr, activity_level)
         IN  [kind |-> "intake", tdee |-> tdee, macros |-> recommended_macros(tdee)]

\* ------------------------------------------------------------ the inputs

\* The process environment at startup: API_KEY unset, or set.
Environments == {None, [kind |-> "str", val |-> "k3y"]}

\* What the food database answers to a search: a transport or HTTP error, or a
\* JSON body.  Values are per 100 g.
Apple ==
    [description |-> "Apples, raw",
     foodNutrients |-> <<[nutrientId |-> 1005, value |-> R(14)],
                         [nutrientId |-> 1003, value |-> <<3, 10>>],
                         [nutrientId |-> 1004, value |-> <<1, 5>>],
                         [nutrientId |-> 1008, value |-> R(52)],
                         [nutrientId |-> 1079, value |-> <<12, 5>>]>>]

\* A record with no description and no protein, fat or fiber entry.
Rice ==
    [foodNutrients |-> <<[nutrientId |-> 1008, value |-> R(130)],
                         [nutrientId |-> 1087, value |-> R(10)],
                         [nutrientId |-> 1005, value |-> R(28)]>>]

\* A record with no nutrient list at all.
Water == [description |-> "Water"]

Failed == [kind |-> "RequestException"]

Body(data) == [kind |-> "json", data |-> data]

Responses ==
    {Failed,
     Body([totalHits |-> 0]),
     Body([foods |-> <<>>]),
     Body([foods |-> <<Apple, Rice>>]),
     Body([foods |-> <<Rice>>]),
     Body([foods |-> <<Water, Apple>>])}

\* The answers the session meets.
SessionResponses ==
    {Failed, Body([foods |-> <<>>]), Body([foods |-> <<Apple, Rice>>]),
     Body([foods |-> <<Rice>>])}

\* What the user types at a quantity prompt.
QuantityInputs == {"abc", "-5", "0", "50", "nan"}

\* What the user types at the item-count prompt.
CountInputs == {"abc", "-1", "0", "1", "2", "3"}

Keys == {"carbs", "protein", "fat", "calories", "fiber", "quantity"}

\* ----------------------------------------------------------------- session

Pending == [kind |-> "Pending"]

Zeros == [key \in Keys |-> R(0)]

Init ==
    /\ pc = "start"
    /\ API_KEY = None
    /\ results = <<>>
    /\ combined_macros = Zeros
    /\ num_items = 0
    /\ batch = <<>>
    /\ request = None
    /\ out = [kind |-> "nothing"]
    /\ call = None
    /\ ret = Pending

\* Lines 8-9 and 134-135: the credential is read from the environment, absent
\* or not, and main starts with an empty result list.
Startup ==
    /\ pc = "start"
    /\ \E env \in Environments : API_KEY' = env
    /\ pc' = "menu"
    /\ results' = <<>>
    /\ UNCHANGED <<combined_macros, num_items, batch, request, out, call, ret>>

\* Lines 146-152 and 173-179: float(quantity_str), refused when it raises or
\* when quantity <= 0.
QuantityRefused(quantity_str) ==
    \/ ~float(quantity_str).ok
    \/ RLeq(float(quantity_str).val, R(0))

\* Line 14: the search URL carries the food and the credential; the quantity is
\* the argument the lookup was called with.
SearchRequest(quantity) == [api_key |-> API_KEY, quantity |-> quantity]

\* Option 1, lines 142-163.
SingleLookup ==
    /\ pc = "menu"
    /\ \E quantity_str \in QuantityInputs, response \in SessionResponses :
          IF QuantityRefused(quantity_str)
          THEN /\ out' = [kind |-> "Invalid quantity input"]
               /\ request' = None
               /\ UNCHANGED results
          ELSE LET quantity == float(quantity_str).val
                   macros == fetch_from_usda(response, quantity)
               IN  /\ request' = SearchRequest(quantity)
                   /\ IF macros # None
                      THEN /\ Len(results) < MaxResults
                           /\ results' = Append(results, macros)
                           /\ out' = [kind |-> "Nutrition", macros |-> macros]
                      ELSE /\ out' = [kind |-> "Food item not found"]
                           /\ UNCHANGED results
    /\ UNCHANGED <<pc, API_KEY, combined_macros, num_items, batch, call, ret>>

\* Lines 186-188: the totals are printed.
CombinedReport(n, combined, history) ==
    [kind |-> "Combined Macros", num_items |-> n, combined_macros |-> combined,
     batch |-> history]

\* Option 2, lines 166-169: the accumulator is zeroed and the item count read;
\* int() raising ValueError is not caught and ends main.  With no item to read
\* the totals are printed at once.
MultiStart ==
    /\ pc = "menu"
    /\ \E count_str \in CountInputs :
          IF ~int(count_str).ok
          THEN /\ pc' = "crashed"
               /\ out' = [kind |-> "ValueError"]
               /\ combined_macros' = Zeros
               /\ UNCHANGED <<num_items, batch>>
          ELSE LET n == int(count_str).val
               IN  /\ n <= MaxItems
                   /\ IF n <= 0
                      THEN /\ out' = CombinedReport(n, Zeros, <<>>)
                           /\ UNCHANGED <<pc, combined_macros, num_items, batch>>
                      ELSE /\ pc' = "multi"
                           /\ combined_macros' = Zeros
                           /\ num_items' = n
                           /\ batch' = <<>>
                           /\ out' = [kind |-> "Enter the food item"]
    /\ request' = None
    /\ UNCHANGED <<API_KEY, results, call, ret>>

\* combined_macros[key] = macros[key]: the total overwritten, not added to.
Overwritten(combined, macros) ==
    IF macros # None
    THEN [key \in Keys |-> macros[key]]
    ELSE combined

\* Lines 182-184: for key in combined_macros: combined_macros[key] += macros[key]
Accumulated(combined, macros) ==
    IF macros # None
    THEN [key \in Keys |-> RAdd(combined[key], macros[key])]
    ELSE combined

\* Option 2, one pass of the loop of lines 169-184, and lines 186-188 after the
\* last pass.  The locals are dead after the report and are reset.
MultiItem ==
    /\ pc = "multi"
    /\ \E quantity_str \in QuantityInputs, response \in SessionResponses :
          LET refused == QuantityRefused(quantity_str)
              quantity == float(quantity_str).val
              macros == fetch_from_usda(response, quantity)
              combined == IF refused THEN combined_macros
                          ELSE Accumulated(combined_macros, macros)
              history == Append(batch, IF refused THEN [kind |-> "rejected"] ELSE macros)
          IN  /\ request' = IF refused THEN None ELSE SearchRequest(quantity)
              /\ IF Len(history) < num_items
                 THEN /\ combined_macros' = combined
                      /\ batch' = history
                      /\ out' = IF refused THEN [kind |-> "Invalid quantity input"]
                                ELSE [kind |-> "Enter the food item"]
                      /\ UNCHANGED <<pc, num_items>>
                 ELSE /\ out' = CombinedReport(num_items, combined, history)
                      /\ pc' = "menu"
                      /\ combined_macros' = Zeros
                      /\ num_items' = 0
                      /\ batch' = <<>>
    /\ UNCHANGED <<API_KEY, results, call, ret>>

\* What the user types at the format prompt, and whether the file can be written.
FormatInputs == {"CSV", "json", "xml"}

\* save_results, lines 58-78: the rows written, or the report of a refusal.
save_results(rows, format_str, writable) ==
    LET file_format == lower(format_str)
    IN  IF file_format \notin {"csv", "json"} THEN [kind |-> "Invalid format"]
        ELSE IF ~writable THEN [kind |-> "Error saving file"]
        ELSE [kind |-> "Results saved", format |-> file_format, rows |-> rows]

\* Option 3, lines 190-194.
Save ==
    /\ pc = "menu"
    /\ IF results # <<>>
       THEN \E format_str \in FormatInputs, writable \in BOOLEAN :
               out' = save_results(results, format_str, writable)
       ELSE out' = [kind |-> "No results to save"]
    /\ request' = None
    /\ UNCHANGED <<pc, API_KEY, results, combined_macros, num_items, batch, call, ret>>

\* What the user types at the five prompts of option 4.
AgeInputs == {"25", "abc"}
WeightInputs == {"70", "10"}
HeightInputs == {"175"}
GenderInputs == {"Male"}
ActivityInputs == {"Very Active"}

\* Option 4, lines 196-197.
Intake ==
    /\ pc = "menu"
    /\ \E age_s \in AgeInputs, weight_s \in WeightInputs, height_s \in HeightInputs,
          gender_s \in GenderInputs, activity_s \in ActivityInputs :
          out' = calculate_recommended_intake(age_s, weight_s, height_s, gender_s,
                                              activity_s)
    /\ request' = None
    /\ UNCHANGED <<pc, API_KEY, results, combined_macros, num_items, batch, call, ret>>

\* Option 5, lines 199-201.
Exit ==
    /\ pc = "menu"
    /\ pc' = "exited"
    /\ out' = [kind |-> "Goodbye"]
    /\ request' = None
    /\ UNCHANGED <<API_KEY, results, combined_macros, num_items, batch, call, ret>>

\* Any other choice, lines 203-204.
InvalidChoice ==
    /\ pc = "menu"
    /\ out' = [kind |-> "Invalid choice"]
    /\ request' = None
    /\ UNCHANGED <<pc, API_KEY, results, combined_macros, num_items, batch, call, ret>>

Next ==
    \/ Startup
    \/ SingleLookup
    \/ MultiStart
    \/ MultiItem
    \/ Save
    \/ Intake
    \/ Exit
    \/ InvalidChoice

Spec == Init /\ [][Next]_vars

\* ------------------------------------------------- the functions called

\* The arguments the functions are called with.
Weights == {R(70), R(10), R(0), R(-5), <<141, 2>>}
Heights == {R(175), R(10), R(0), <<325, 2>>}
Ages == {25, 70, 0, -1}
Genders == {"male", "female", "Male", "MALE", "other", ""}
ActivityLevels ==
    {"sedentary", "light", "moderate", "active", "very active", "very-active",
     "Moderate", "x", ""}
Bmrs == {<<6695, 4>>, R(1500), R(1), R(0)}
Tdees == {R(2000), <<41509, 16>>, R(1800), R(0)}
Quantities == {R(50), R(200), <<125, 2>>, R(1), R(0), R(-5), NaN}
AgeStrings == {"25", "70", "2.5", "abc"}
WeightStrings == {"70", "10", "62.5", "abc"}
HeightStrings == {"175", "10", "abc"}
GenderStrings == {"male", "Male", "female", "x"}
ActivityStrings == {"sedentary", "moderate", "very active", "Very Active", "very-active"}

Calls ==
    [fn : {"calculate_bmr"}, weight : Weights, height : Heights, age : Ages,
     gender : Genders]
    \cup [fn : {"calculate_tdee"}, bmr : Bmrs, activity_level : ActivityLevels]
    \cup [fn : {"recommended_macros"}, tdee : Tdees]
    \cup [fn : {"calculate_recommended_intake"}, age : AgeStrings,
          weight : WeightStrings, height : HeightStrings, gender : GenderStrings,
          activity_level : ActivityStrings]
    \cup [fn : {"fetch_from_usda"}, response : Responses, quantity : Quantities]

CalcInit ==
    /\ pc = "import"
    /\ API_KEY \in Environments
    /\ results = <<>>
    /\ combined_macros = Zeros
    /\ num_items = 0
    /\ batch = <<>>
    /\ request = None
    /\ out = [kind |-> "nothing"]
    /\ call \in Calls
    /\ ret = Pending

Returns(fn, value) ==
    /\ pc = "import"
    /\ call.fn = fn
    /\ ret = Pending
    /\ ret' = [kind |-> "returned", value |-> value]
    /\ UNCHANGED <<pc, API_KEY, results, combined_macros, num_items, batch, request,
                   out, call>>

CallBmr ==
    Returns("calculate_bmr",
            calculate_bmr(call.weight, call.height, call.age, call.gender))

CallTdee ==
    Returns("calculate_tdee", calculate_tdee(call.bmr, call.activity_level))

CallMacros ==
    Returns("recommended_macros", recommended_macros(call.tdee))

CallIntake ==
    Returns("calculate_recommended_intake",
            calculate_recommended_intake(call.age, call.weight, call.height,
                                         call.gender, call.activity_level))

CallFetch ==
    Returns("fetch_from_usda", fetch_from_usda(call.response, call.quantity))

CalcNext ==
    \/ CallBmr
    \/ CallTdee
    \/ CallMacros
    \/ CallIntake
    \/ CallFetch

CalcSpec == CalcInit /\ [][CalcNext]_vars

\* ------------------------------------------------------------- properties

Positive(x) == ~IsNaN(x) /\ x[1] > 0

\* The nutrient list of the first food record of the answer, as the mapping the
\* extractor reads: the value listed for id, or 0 when id is not listed.
ListedValue(food, id) ==
    LET entries == IF "foodNutrients" \in DOMAIN food THEN food.foodNutrients ELSE <<>>
    IN  IF \E i \in DOMAIN entries : entries[i].nutrientId = id
        THEN entries[CHOOSE i \in DOMAIN entries : entries[i].nutrientId = id].value
        ELSE R(0)

FetchReturned ==
    /\ call.fn = "fetch_from_usda"
    /\ ret.kind = "returned"
    /\ call.response.kind = "json"
    /\ "foods" \in DOMAIN call.response.data
    /\ call.response.data.foods # <<>>
    /\ Positive(call.quantity)

\* C1: for the nutrient mapping of the first matching food record and a quantity
\* q > 0, fetch_from_usda returns a profile whose carbs, protein, fat, calories
\* and fiber are the values for ids 1005, 1003, 1004, 1008, 1079 (0 when the id
\* is missing) / 100 * q, and whose quantity is q; a missing id is no error.
C1_ProfileIsValuePer100TimesQuantity ==
    FetchReturned =>
        LET food == call.response.data.foods[1]
            q == call.quantity
            per100(field, id) ==
                RMul(ret.value[field], R(100)) = RMul(ListedValue(food, id), q)
        IN  /\ ret.value.kind = "profile"
            /\ per100("carbs", 1005)
            /\ per100("protein", 1003)
            /\ per100("fat", 1004)
            /\ per100("calories", 1008)
            /\ per100("fiber", 1079)
            /\ ret.value.quantity = q

\* Rice lists neither protein, fat nor fiber: 62.5 g of it give 17.5 g of carbs,
\* 81.25 kcal and zeros.
C1_Witness ==
    /\ FetchReturned
    /\ call.response.data.foods[1] = Rice
    /\ call.quantity = <<125, 2>>
    /\ ret.value.kind = "profile"
    /\ ret.value.carbs = <<35, 2>>
    /\ ret.value.calories = <<325, 4>>
    /\ ret.value.protein = R(0)

\* The range [tdee * lo% / perGram, tdee * hi% / perGram] in grams.
GramRange(tdee, lo, hi, perGram) ==
    <<RDiv(RMul(tdee, <<lo, 100>>), R(perGram)), RDiv(RMul(tdee, <<hi, 100>>), R(perGram))>>

\* C2: recommended_macros(t) returns the carbohydrate range [t*0.45/4, t*0.65/4],
\* the protein range [t*0.10/4, t*0.35/4] and the fat range [t*0.20/9, t*0.35/9];
\* recommended_macros(2000) gives carbs [225, 325].
C2_RangesArePercentOfTdee ==
    (call.fn = "recommended_macros" /\ ret.kind = "returned") =>
        /\ ret.value.carbs = GramRange(call.tdee, 45, 65, 4)
        /\ ret.value.protein = GramRange(call.tdee, 10, 35, 4)
        /\ ret.value.fat = GramRange(call.tdee, 20, 35, 9)
        /\ (call.tdee = R(2000) => ret.value.carbs = <<R(225), R(325)>>)

\* C3: no error is fatal to the session: whatever is typed, the session is at
\* the menu, inside an operation or ended by the exit choice, never ended by an
\* error.
C3_NoErrorEndsTheSession ==
    pc \in {"start", "menu", "multi", "exited"}

\* C4: the food database is never called with a quantity that is not a positive
\* number.
C4_LookupOnlyWithPositiveQuantity ==
    request # None => Positive(request.quantity)

\* C5: with no API credential in the configuration the program fails at
\* startup: it never reaches the menu and sends no lookup request.
C5_NoCredentialNoSession ==
    /\ API_KEY = None => pc = "start"
    /\ request # None => request.api_key # None

\* The profiles among the outcomes of a batch.
Successes(history) == SelectSeq(history, LAMBDA m : m.kind = "profile")

\* The sum of field key over the profiles s, added in the order p.
RECURSIVE SumInOrder(_, _, _, _)
SumInOrder(s, p, key, n) ==
    IF n = 0 THEN R(0) ELSE RAdd(SumInOrder(s, p, key, n - 1), s[p[n]][key])

IsSumOfSuccesses(combined, history) ==
    LET s == Successes(history)
    IN  \A p \in Permutations(1..Len(s)) :
            \A key \in Keys : combined[key] = SumInOrder(s, p, key, Len(s))

\* C6: the combined carbs, protein, fat, calories, fiber and quantity of a
\* multi-item lookup are the field-wise sums, from zero, over the items whose
\* lookup succeeded, in whatever order they are added; a rejected, not found or
\* failed item adds nothing and the items after it are still processed; a batch
\* with no successful item gives all zeros.
C6_CombinedIsSumOverSuccessfulItems ==
    /\ pc = "multi" =>
          /\ Len(batch) < num_items
          /\ IsSumOfSuccesses(combined_macros, batch)
    /\ out.kind = "Combined Macros" =>
          /\ Len(out.batch) = (IF out.num_items > 0 THEN out.num_items ELSE 0)
          /\ IsSumOfSuccesses(out.combined_macros, out.batch)
          /\ (Successes(out.batch) = <<>> =>
                \A key \in Keys : out.combined_macros[key] = <<0, 1>>)

\* A batch of two whose first lookup failed and whose second found apples.
C6_Witness ==
    /\ out.kind = "Combined Macros"
    /\ Len(out.batch) = 2
    /\ out.batch[1] = None
    /\ out.batch[2].kind = "profile"
    /\ out.combined_macros.carbs = R(7)
    /\ out.combined_macros.quantity = R(50)

TdeeReturned == call.fn = "calculate_tdee" /\ ret.kind = "returned"

\* C7: calculate_tdee(b, a) is b * 1.2 for sedentary, b * 1.375 for light,
\* b * 1.55 for moderate, b * 1.725 for active, b * 1.9 for very-active and
\* b * 1.2 for any other string.
C7_TdeeTableWithHyphen ==
    TdeeReturned =>
        ret.value = RMul(call.bmr,
                   CASE call.activity_level = "sedentary" -> <<12, 10>>
                     [] call.activity_level = "light" -> <<1375, 1000>>
                     [] call.activity_level = "moderate" -> <<155, 100>>
                     [] call.activity_level = "active" -> <<1725, 1000>>
                     [] call.activity_level = "very-active" -> <<19, 10>>
                     [] OTHER -> <<12, 10>>)

\* C7 as amended: the fifth level is spelled 'very active', with a space;
\* 'very-active', like any other string, gets b * 1.2.
C7_TdeeTableWithSpace ==
    TdeeReturned =>
        ret.value = RMul(call.bmr,
                   CASE call.activity_level = "sedentary" -> <<12, 10>>
                     [] call.activity_level = "light" -> <<1375, 1000>>
                     [] call.activity_level = "moderate" -> <<155, 100>>
                     [] call.activity_level = "active" -> <<1725, 1000>>
                     [] call.activity_level = "very active" -> <<19, 10>>
                     [] OTHER -> <<12, 10>>)

\* 1500 kcal at 'very active' are 2850 kcal.
C7_Witness ==
    /\ TdeeReturned
    /\ call.activity_level = "very active"
    /\ call.bmr = R(1500)
    /\ ret.value = R(2850)

\* C8: calculate_bmr is 10*weight + 6.25*height - 5*age + 5 when gender is
\* exactly 'male' and 10*weight + 6.25*height - 5*age - 161 for every other
\* gender string; weight 70, height 175, age 25, male gives 1673.75.
C8_BmrIsMifflinStJeor ==
    (call.fn = "calculate_bmr" /\ ret.kind = "returned") =>
        LET wn == call.weight[1]
            wd == call.weight[2]
            hn == call.height[1]
            hd == call.height[2]
            k == IF call.gender = "male" THEN 5 ELSE -161
        IN  \* over the common denominator 4 * wd * hd
            /\ ret.value = Norm(40 * wn * hd + 25 * hn * wd
                          - 20 * call.age * wd * hd + 4 * k * wd * hd,
                          4 * wd * hd)
            /\ (/\ call.weight = R(70)
                /\ call.height = R(175)
                /\ call.age = 25
                /\ call.gender = "male") => ret.value = Norm(167375, 100)

\* A gender that is neither male nor female is treated as female.
C8_Witness ==
    /\ call.fn = "calculate_bmr"
    /\ ret.kind = "returned"
    /\ call.gender = "other"
    /\ call.weight = R(70)
    /\ call.height = R(175)
    /\ call.age = 25
    /\ ret.value = <<6031, 4>>

\* C9: for every input calculate_recommended_intake accepts, each of the three
\* recommended ranges has low <= high and both bounds non-negative.
C9_RangesOrderedAndNonNegative ==
    (call.fn = "calculate_recommended_intake" /\ ret.kind = "returned" /\ ret.value.kind = "intake") =>
        \A nutrient \in {"carbs", "protein", "fat"} :
            /\ RLeq(ret.value.macros[nutrient][1], ret.value.macros[nutrient][2])
            /\ RLeq(R(0), ret.value.macros[nutrient][1])

\* The profiles the last step looked up successfully.
Fetched ==
    LET last(history) ==
            IF history # <<>> /\ history[Len(history)].kind = "profile"
            THEN <<history[Len(history)]>>
            ELSE <<>>
    IN  IF request = None THEN <<>>
        ELSE IF out.kind = "Nutrition" THEN <<out.macros>>
        ELSE IF out.kind = "Combined Macros" THEN last(out.batch)
        ELSE IF pc = "multi" THEN last(batch)
        ELSE <<>>

\* C10: the result list holds exactly the profiles of all lookups that
\* succeeded during the session, in order, single-item or multi-item: every
\* step appends the profiles it looked up successfully and changes nothing else
\* of the list.
C10_ResultsAreAllSuccessfulLookups ==
    [][results' = results \o Fetched']_vars

====
